---- MODULE Spec2Model ----
(***************************************************************************)
(* Caching and outbound-throttling layer of the travel assistant:          *)
(* TTLCache (agents/common/utils.py) and the get-or-fetch facades that     *)
(* use it (agents/common/weather.py, agents/common/time_utils.py).         *)
(*                                                                         *)
(* time.time() is modelled by the integer clock `now`; an OrderedDict is a *)
(* sequence of [key, value] entries, oldest position first.                *)
(***************************************************************************)
EXTENDS Integers, Sequences, FiniteSets, TLC

\* ---------------------------------------------------------------- bounds
MaxTime == 3
MaxTTL == 2
MaxEvents == 3

\* ----------------------------------------------------------- input sets
None == "None"
Keys == {"a", "b", "c"}
\* "empty" stands for a falsy payload ({} or []), "v1" for a truthy one
Values == {"v1", "empty"}
TTLs == 1..MaxTTL
\* configurations of ADK_MAX_CACHE_ITEMS examined
MaxItemsValues == {1, 2}

VARIABLES
    now,        \* time.time()
    ttlcache,   \* a TTLCache instance: [max_items, cache, expirations]
    last,       \* observation of the operation executed last
    written,    \* history: key -> [deadline, value] of its last set (deadline is the
                \* clock at that set plus its ttl), while the key has not been removed since
    used,       \* history: tracked keys by last successful get or set, oldest first
    rate_limiter, \* the module-level RateLimiter: [rps, window_sec, events]
    facade,     \* the facade followed, with the TTL its configuration gives it: [name, ttl]
    res,        \* observation of the facade call executed last
    waited,     \* observation of the rate_limiter.wait() call executed last
    threads,    \* concurrent callers: thread -> its position and local variables
    http,       \* the HTTP exchange of the facade call executed last
    HTTPSessionManager, \* the class attribute _instance and the Session objects created
    cache_manager,      \* the CacheManager of app.py: [memory_cache]
    retrying    \* a call through retry_on_failure: its arguments and what it did so far

\* the application-level objects, which the cache and limiter operations leave alone
app == <<HTTPSessionManager, cache_manager, retrying>>

vars == <<now, ttlcache, last, written, used, rate_limiter, facade, res, waited,
          threads, http, HTTPSessionManager, cache_manager, retrying>>

\* ------------------------------------------------------ dict / OrderedDict
Restrict(f, S) == [k \in S |-> f[k]]

KeysOf(c) == {c[i].key : i \in 1..Len(c)}

KeyOrder(c) == [i \in 1..Len(c) |-> c[i].key]

IndexOf(c, key) ==
    IF key \in KeysOf(c) THEN CHOOSE i \in 1..Len(c) : c[i].key = key ELSE 0

ValueOf(c, key) == c[IndexOf(c, key)].value

Without(s, key) == SelectSeq(s, LAMBDA x : x # key)

dict_del(c, key) == SelectSeq(c, LAMBDA e : e.key # key)

\* OrderedDict.__setitem__: an existing key keeps its position
dict_setitem(c, key, value) ==
    IF key \in KeysOf(c)
    THEN [i \in 1..Len(c) |-> IF c[i].key = key THEN [key |-> key, value |-> value] ELSE c[i]]
    ELSE Append(c, [key |-> key, value |-> value])

move_to_end_nop(c, key) == c

move_to_end(c, key) ==
    Append(dict_del(c, key), [key |-> key, value |-> ValueOf(c, key)])

\* ---------------------------------------------------------------- TTLCache
TTLCache_init(max_items) ==
    [max_items |-> max_items, cache |-> <<>>, expirations |-> Restrict(<<>>, {})]

remove_key_cache_only(self, key) ==
    [self EXCEPT !.cache = IF key \in KeysOf(@) THEN dict_del(@, key) ELSE @]

remove_key(self, key) ==
    [self EXCEPT
        !.cache = IF key \in KeysOf(@) THEN dict_del(@, key) ELSE @,
        !.expirations = IF key \in DOMAIN @ THEN Restrict(@, DOMAIN @ \ {key}) ELSE @]

TTLCache_get_no_promote(self, key, ttl, t) ==
    IF key \notin KeysOf(self.cache)
    THEN [self |-> self, ret |-> None]
    ELSE IF t > self.expirations[key]
    THEN [self |-> remove_key(self, key), ret |-> None]
    ELSE [self |-> self, ret |-> ValueOf(self.cache, key)]

TTLCache_get_purge_expired(self, key, ttl, t) ==
    IF key \notin KeysOf(self.cache)
    THEN [self |-> self, ret |-> None]
    ELSE IF t > self.expirations[key]
    THEN [self |-> [self EXCEPT
                      !.cache = SelectSeq(@, LAMBDA e : t <= self.expirations[e.key]),
                      !.expirations = Restrict(@, {k \in DOMAIN @ : t <= @[k]})],
          ret |-> None]
    ELSE [self |-> [self EXCEPT !.cache = move_to_end(@, key)],
          ret |-> ValueOf(self.cache, key)]

TTLCache_get_read_ttl(self, key, ttl, t) ==
    IF key \notin KeysOf(self.cache)
    THEN [self |-> self, ret |-> None]
    ELSE IF t > self.expirations[key] - MaxTTL + ttl
    THEN [self |-> remove_key(self, key), ret |-> None]
    ELSE [self |-> [self EXCEPT !.cache = move_to_end(@, key)],
          ret |-> ValueOf(self.cache, key)]

\* get(key, ttl) at clock t: the new instance state and the returned value
TTLCache_get(self, key, ttl, t) ==
    IF key \notin KeysOf(self.cache)
    THEN [self |-> self, ret |-> None]
    ELSE IF t > self.expirations[key]
    THEN [self |-> remove_key(self, key), ret |-> None]
    ELSE [self |-> [self EXCEPT !.cache = move_to_end(@, key)],
          ret |-> ValueOf(self.cache, key)]

TTLCache_set_noevict(self, key, value, ttl, t) ==
    [self EXCEPT
        !.cache = move_to_end(dict_setitem(@, key, value), key),
        !.expirations = [k \in DOMAIN @ \cup {key} |-> IF k = key THEN t + ttl ELSE @[k]]]

TTLCache_set_evict_always(self, key, value, ttl, t) ==
    LET s1 == IF Len(self.cache) >= self.max_items
              THEN remove_key(self, self.cache[1].key)
              ELSE self
    IN  [s1 EXCEPT
            !.cache = move_to_end(dict_setitem(@, key, value), key),
            !.expirations = [k \in DOMAIN @ \cup {key} |-> IF k = key THEN t + ttl ELSE @[k]]]

\* set(key, value, ttl) at clock t: the new instance state
TTLCache_set(self, key, value, ttl, t) ==
    LET oldest_key == self.cache[1].key
        s1 == IF Len(self.cache) >= self.max_items /\ key \notin KeysOf(self.cache)
              THEN remove_key(self, oldest_key)
              ELSE self
    IN  [s1 EXCEPT
            !.cache = move_to_end(dict_setitem(@, key, value), key),
            !.expirations = [k \in DOMAIN @ \cup {key} |-> IF k = key THEN t + ttl ELSE @[k]]]

TTLCache_clear(self) ==
    [self EXCEPT !.cache = <<>>, !.expirations = Restrict(@, {})]

size(self) == Len(self.cache)

\* ------------------------------------------------------------- RateLimiter
\* Config.RL_WINDOW_SEC, in clock units (seconds)
RL_WINDOW_SEC == 1

\* rps is held in tenths of a request per second (Config.RATE_LIMIT_RPS is a float)
RateLimiter_init(rps) == [rps |-> rps, window_sec |-> RL_WINDOW_SEC, events |-> <<>>]

\* int(self.rps): truncation of a positive float
int(rps) == rps \div 10

\* while self.events and self.events[0] < cutoff: self.events.popleft()
RECURSIVE popleft_while(_, _)
popleft_while(events, cutoff) ==
    IF events # <<>> /\ events[1] < cutoff
    THEN popleft_while(Tail(events), cutoff)
    ELSE events

RateLimiter_wait_full_early(self, t, over) ==
    IF self.rps <= 0
    THEN [self |-> self, now |-> t, slept |-> FALSE, raised |-> None]
    ELSE LET ev1 == popleft_while(self.events, t - self.window_sec)
         IN  IF Len(ev1) + 1 >= int(self.rps)
             THEN IF ev1 = <<>>
                  THEN [self |-> [self EXCEPT !.events = ev1], now |-> t,
                        slept |-> FALSE, raised |-> "IndexError"]
                  ELSE LET sleep_for == ev1[1] + self.window_sec - t
                           t2 == t + sleep_for + over
                       IN  IF sleep_for > 0
                           THEN [self |-> [self EXCEPT !.events =
                                     Append(popleft_while(ev1, t2 - self.window_sec), t2)],
                                 now |-> t2, slept |-> TRUE, raised |-> None]
                           ELSE [self |-> [self EXCEPT !.events = Append(ev1, t)],
                                 now |-> t, slept |-> FALSE, raised |-> None]
             ELSE [self |-> [self EXCEPT !.events = Append(ev1, t)],
                   now |-> t, slept |-> FALSE, raised |-> None]

RateLimiter_wait_zero_enabled(self, t, over) ==
    IF self.rps < 0
    THEN [self |-> self, now |-> t, slept |-> FALSE, raised |-> None]
    ELSE LET ev1 == popleft_while(self.events, t - self.window_sec)
         IN  IF Len(ev1) >= int(self.rps)
             THEN IF ev1 = <<>>
                  THEN [self |-> [self EXCEPT !.events = ev1], now |-> t,
                        slept |-> FALSE, raised |-> "IndexError"]
                  ELSE LET sleep_for == ev1[1] + self.window_sec - t
                           t2 == t + sleep_for + over
                       IN  IF sleep_for > 0
                           THEN [self |-> [self EXCEPT !.events =
                                     Append(popleft_while(ev1, t2 - self.window_sec), t2)],
                                 now |-> t2, slept |-> TRUE, raised |-> None]
                           ELSE [self |-> [self EXCEPT !.events = Append(ev1, t)],
                                 now |-> t, slept |-> FALSE, raised |-> None]
             ELSE [self |-> [self EXCEPT !.events = Append(ev1, t)],
                   now |-> t, slept |-> FALSE, raised |-> None]

\* wait() entered at clock t; `over` is by how much time.sleep oversleeps.
\* Gives the limiter afterwards, the clock at return, and the exception raised if any.
RateLimiter_wait(self, t, over) ==
    IF self.rps <= 0
    THEN [self |-> self, now |-> t, slept |-> FALSE, raised |-> None]
    ELSE LET ev1 == popleft_while(self.events, t - self.window_sec)
         IN  IF Len(ev1) >= int(self.rps)
             THEN IF ev1 = <<>>
                  THEN [self |-> [self EXCEPT !.events = ev1], now |-> t,
                        slept |-> FALSE, raised |-> "IndexError"]
                  ELSE LET sleep_for == ev1[1] + self.window_sec - t
                           t2 == t + sleep_for + over
                       IN  IF sleep_for > 0
                           THEN [self |-> [self EXCEPT !.events =
                                     Append(popleft_while(ev1, t2 - self.window_sec), t2)],
                                 now |-> t2, slept |-> TRUE, raised |-> None]
                           ELSE [self |-> [self EXCEPT !.events = Append(ev1, t)],
                                 now |-> t, slept |-> FALSE, raised |-> None]
             ELSE [self |-> [self EXCEPT !.events = Append(ev1, t)],
                   now |-> t, slept |-> FALSE, raised |-> None]

\* ------------------------------------------------------------------ facades
\* `if cached:` -- Python truthiness of a cached payload
Truthy(v) == v # None /\ v # "empty"

\* What the upstream does with one request: session.get(...) followed by
\* raise_for_status() either yields a 2xx response carrying `payload` or raises a
\* requests.RequestException (connection failure, or an error status once the
\* session's retries are used up); `delay` is the clock time the request takes,
\* `over` the oversleep of a time.sleep in rate_limiter.wait(). A 2xx body that is
\* not the JSON shape the facade indexes (KeyError, TypeError) is not modelled.
Upstreams ==
    {[outcome |-> o, payload |-> p, delay |-> d, over |-> v] :
        o \in {"ok"}, p \in Values, d \in {0, 1}, v \in {0}}
    \cup
    {[outcome |-> o, payload |-> None, delay |-> d, over |-> v] :
        o \in {"http_error", "conn_error"}, d \in {0, 1}, v \in {0}}

\* result of a facade call: the cache and limiter afterwards, the clock at return,
\* the returned value or the exception raised (exc, msg), and what the call did
Result(cache, limiter, t, ret, exc, msg, waits, requests, upstream) ==
    [cache |-> cache, limiter |-> limiter, now |-> t, ret |-> ret, exc |-> exc,
     msg |-> msg, waits |-> waits, requests |-> requests, upstream |-> upstream]

get_coordinates_unadmitted(cache, limiter, key, ttl, t, up) ==
    LET cached == TTLCache_get(cache, key, ttl, t)
        t2 == t + up.delay
    IN  IF Truthy(cached.ret)
        THEN Result(cached.self, limiter, t, cached.ret, None, None, 0, 0, None)
        ELSE IF up.outcome # "ok"
        THEN Result(cached.self, limiter, t2, None, "GeocodingError", "fetch_failed",
                    0, 1, up.outcome)
        ELSE IF ~Truthy(up.payload)
        THEN Result(cached.self, limiter, t2, None, "GeocodingError", "city_not_found",
                    0, 1, "empty_result")
        ELSE Result(TTLCache_set(cached.self, key, up.payload, ttl, t2), limiter, t2,
                    up.payload, None, None, 0, 1, "ok")

get_coordinates(cache, limiter, key, ttl, t, up) ==
    LET cached == TTLCache_get(cache, key, ttl, t)
        w == RateLimiter_wait(limiter, t, up.over)
        t2 == w.now + up.delay
    IN  IF Truthy(cached.ret)
        THEN Result(cached.self, limiter, t, cached.ret, None, None, 0, 0, None)
        ELSE IF w.raised # None
        THEN Result(cached.self, w.self, w.now, None, w.raised, None, 1, 0, None)
        ELSE IF up.outcome # "ok"
        THEN Result(cached.self, w.self, t2, None, "GeocodingError", "fetch_failed",
                    1, 1, up.outcome)
        ELSE IF ~Truthy(up.payload)
        THEN Result(cached.self, w.self, t2, None, "GeocodingError", "city_not_found",
                    1, 1, "empty_result")
        ELSE Result(TTLCache_set(cached.self, key, up.payload, ttl, t2), w.self, t2,
                    up.payload, None, None, 1, 1, "ok")

get_current_weather_cache_error(cache, limiter, key, ttl, t, up) ==
    LET cached == TTLCache_get(cache, key, ttl, t)
        w == RateLimiter_wait(limiter, t, up.over)
        t2 == w.now + up.delay
    IN  IF Truthy(cached.ret)
        THEN Result(cached.self, limiter, t, cached.ret, None, None, 0, 0, None)
        ELSE IF up.outcome # "ok"
        THEN Result(TTLCache_set(cached.self, key, "empty", ttl, t2), w.self, t2, None,
                    "WeatherAPIError", "fetch_failed", 1, 1, up.outcome)
        ELSE Result(TTLCache_set(cached.self, key, up.payload, ttl, t2), w.self, t2,
                    up.payload, None, None, 1, 1, "ok")

get_current_weather(cache, limiter, key, ttl, t, up) ==
    LET cached == TTLCache_get(cache, key, ttl, t)
        w == RateLimiter_wait(limiter, t, up.over)
        t2 == w.now + up.delay
    IN  IF Truthy(cached.ret)
        THEN Result(cached.self, limiter, t, cached.ret, None, None, 0, 0, None)
        ELSE IF w.raised # None
        THEN Result(cached.self, w.self, w.now, None, w.raised, None, 1, 0, None)
        ELSE IF up.outcome # "ok"
        THEN Result(cached.self, w.self, t2, None, "WeatherAPIError", "fetch_failed",
                    1, 1, up.outcome)
        ELSE Result(TTLCache_set(cached.self, key, up.payload, ttl, t2), w.self, t2,
                    up.payload, None, None, 1, 1, "ok")

get_weather_forecast_swallow(cache, limiter, key, ttl, t, up) ==
    LET cached == TTLCache_get(cache, key, ttl, t)
        w == RateLimiter_wait(limiter, t, up.over)
        t2 == w.now + up.delay
    IN  IF Truthy(cached.ret)
        THEN Result(cached.self, limiter, t, cached.ret, None, None, 0, 0, None)
        ELSE IF up.outcome # "ok"
        THEN Result(cached.self, w.self, t2, "empty", None, None, 1, 1, up.outcome)
        ELSE Result(TTLCache_set(cached.self, key, up.payload, ttl, t2), w.self, t2,
                    up.payload, None, None, 1, 1, "ok")

get_weather_forecast(cache, limiter, key, ttl, t, up) ==
    LET cached == TTLCache_get(cache, key, ttl, t)
        w == RateLimiter_wait(limiter, t, up.over)
        t2 == w.now + up.delay
    IN  IF Truthy(cached.ret)
        THEN Result(cached.self, limiter, t, cached.ret, None, None, 0, 0, None)
        ELSE IF w.raised # None
        THEN Result(cached.self, w.self, w.now, None, w.raised, None, 1, 0, None)
        ELSE IF up.outcome # "ok"
        THEN Result(cached.self, w.self, t2, None, "WeatherAPIError", "fetch_failed",
                    1, 1, up.outcome)
        ELSE Result(TTLCache_set(cached.self, key, up.payload, ttl, t2), w.self, t2,
                    up.payload, None, None, 1, 1, "ok")

\* the literal TTL of timezone_cache.get / timezone_cache.set
TZ_TTL == 3600

\* "est" is the estimated zone f"Etc/GMT{sign}{abs(round(lon / 15))}"; a payload
\* whose "timezone" is not in pytz.all_timezones ("empty") is replaced by it
get_timezone(cache, limiter, key, ttl, t, up) ==
    LET cached == TTLCache_get(cache, key, ttl, t)
        w == RateLimiter_wait(limiter, t, up.over)
        t2 == w.now + up.delay
        timezone == IF up.payload = "v1" THEN "v1" ELSE "est"
    IN  IF Truthy(cached.ret)
        THEN Result(cached.self, limiter, t, cached.ret, None, None, 0, 0, None)
        ELSE IF w.raised # None
        THEN Result(cached.self, w.self, w.now, None, w.raised, None, 1, 0, None)
        ELSE IF up.outcome # "ok"
        THEN Result(cached.self, w.self, t2, "est", None, None, 1, 1, up.outcome)
        ELSE Result(TTLCache_set(cached.self, key, timezone, ttl, t2), w.self, t2,
                    timezone, None, None, 1, 1, "ok")

FacadeNames ==
    {"get_coordinates", "get_current_weather", "get_weather_forecast", "get_timezone"}

\* the facades of weather.py, whose TTL is read from the configuration
ConfiguredFacades == {"get_coordinates", "get_current_weather", "get_weather_forecast"}

CallFacade(name, cache, limiter, key, ttl, t, up) ==
    CASE name = "get_coordinates" -> get_coordinates(cache, limiter, key, ttl, t, up)
      [] name = "get_current_weather" -> get_current_weather(cache, limiter, key, ttl, t, up)
      [] name = "get_weather_forecast" -> get_weather_forecast(cache, limiter, key, ttl, t, up)
      [] name = "get_timezone" -> get_timezone(cache, limiter, key, ttl, t, up)

\* --------------------------------------------------------------- observation
\* op: the operation; key: its key; ret: what it returned; pos: the key's position
\* in the OrderedDict before the operation (0: not tracked); evicted: the key a set
\* evicted; evictedFresh: whether that key was unexpired when evicted
Obs(op, key, ret, pos, evicted, evictedFresh) ==
    [op |-> op, key |-> key, ret |-> ret, pos |-> pos, evicted |-> evicted,
     evictedFresh |-> evictedFresh]

Idle(op) == Obs(op, None, None, 0, None, FALSE)

\* exc, msg: the exception a facade call raised; waits: its rate_limiter.wait() calls;
\* requests: the HTTP requests it issued; upstream: how the request ended
NoRes == [exc |-> None, msg |-> None, waits |-> 0, requests |-> 0, upstream |-> None]

\* op: "wait" once a wait() call has run; rps, before: the limiter's rps and its deque
\* at the call; t0: the clock at the call; slept: whether it called time.sleep;
\* raised: the exception it raised
NoWait == [op |-> None, rps |-> 0, before |-> <<>>, t0 |-> 0, slept |-> FALSE,
           raised |-> None]

\* no concurrent caller
NoThreads == <<>>

\* statuses: the status line of each attempt of the request, in order
NoHttp == [statuses |-> <<>>]

\* HTTPSessionManager before any get_session(): _instance is None (0), no Session
\* object exists; sessions[i] counts the mounts of a retry adapter on Session i
NoSession == [instance |-> 0, sessions |-> <<>>]

\* CacheManager.__init__: self.memory_cache = {}, a dict in insertion order of
\* [key, value, timestamp] entries
NoCacheManager == [memory_cache |-> <<>>]

\* no call through retry_on_failure under way
NoRetrying == [pc |-> "idle"]

\* ------------------------------------------------------------------ actions
Get(key, ttl) ==
    LET r == TTLCache_get(ttlcache, key, ttl, now)
    IN  /\ ttlcache' = r.self
        /\ last' = Obs("get", key, r.ret, IndexOf(ttlcache.cache, key), None, FALSE)
        /\ used' = IF r.ret # None THEN Append(Without(used, key), key)
                   ELSE IF key \in KeysOf(ttlcache.cache) THEN Without(used, key)
                   ELSE used
        /\ written' = Restrict(written, DOMAIN written \cap KeysOf(r.self.cache))
        /\ UNCHANGED <<app, now, rate_limiter, facade, res, waited, threads, http>>

Set(key, value, ttl) ==
    LET s == TTLCache_set(ttlcache, key, value, ttl, now)
        gone == KeysOf(ttlcache.cache) \ KeysOf(s.cache)
        ev == IF gone = {} THEN None ELSE CHOOSE k \in gone : TRUE
    IN  /\ ttlcache' = s
        /\ last' = Obs("set", key, None, IndexOf(ttlcache.cache, key), ev,
                       ev # None /\ now < ttlcache.expirations[ev])
        /\ written' = [k \in ((DOMAIN written) \ gone) \cup {key} |->
                          IF k = key THEN [deadline |-> now + ttl, value |-> value]
                          ELSE written[k]]
        /\ used' = Append(SelectSeq(used, LAMBDA k : k # key /\ k \notin gone), key)
        /\ UNCHANGED <<app, now, rate_limiter, facade, res, waited, threads, http>>

Clear ==
    /\ ttlcache' = TTLCache_clear(ttlcache)
    /\ last' = Idle("clear")
    /\ written' = Restrict(written, {})
    /\ used' = <<>>
    /\ UNCHANGED <<app, now, rate_limiter, facade, res, waited, threads, http>>

Tick ==
    /\ now < MaxTime
    /\ now' = now + 1
    /\ last' = Idle("tick")
    /\ res' = NoRes
    /\ waited' = NoWait
    /\ http' = NoHttp
    /\ UNCHANGED <<app, ttlcache, written, used, rate_limiter, facade, threads>>

\* One call of the facade followed, by the single caller, for the cache key `key`.
Call(key, up) ==
    \E r \in {CallFacade(facade.name, ttlcache, rate_limiter, key, facade.ttl, now, up)} :
    \E gone \in {KeysOf(ttlcache.cache) \ (KeysOf(r.cache.cache) \cup {key})} :
    \E ev \in {IF gone = {} THEN None ELSE CHOOSE k \in gone : TRUE} :
    \E stored \in {r.requests = 1 /\ r.upstream = "ok" /\ r.exc = None} :
        /\ r.now <= MaxTime
        /\ Len(r.limiter.events) <= MaxEvents
        /\ ttlcache' = r.cache
        /\ rate_limiter' = r.limiter
        /\ now' = r.now
        /\ last' = Obs("call", key, r.ret, IndexOf(ttlcache.cache, key), ev,
                       ev # None /\ r.now < ttlcache.expirations[ev])
        /\ res' = [exc |-> r.exc, msg |-> r.msg, waits |-> r.waits,
                   requests |-> r.requests, upstream |-> r.upstream]
        /\ written' = [k \in ((DOMAIN written \cap KeysOf(r.cache.cache)) \ {key})
                              \cup (IF stored THEN {key}
                                    ELSE {key} \cap DOMAIN written \cap KeysOf(r.cache.cache)) |->
                          IF k = key /\ stored
                          THEN [deadline |-> r.now + facade.ttl, value |-> r.ret]
                          ELSE written[k]]
        /\ used' = KeyOrder(r.cache.cache)
        /\ UNCHANGED <<app, facade, waited, threads, http>>

\* ------------------------------------------------------------ specification
Init ==
    /\ now = 0
    /\ ttlcache \in {TTLCache_init(m) : m \in MaxItemsValues}
    /\ last = Idle("init")
    /\ written = Restrict(<<>>, {})
    /\ used = <<>>
    /\ rate_limiter = RateLimiter_init(50)
    /\ facade = [name |-> None, ttl |-> 0]
    /\ res = NoRes
    /\ waited = NoWait
    /\ threads = NoThreads
    /\ http = NoHttp
    /\ HTTPSessionManager = NoSession
    /\ cache_manager = NoCacheManager
    /\ retrying = NoRetrying

Next ==
    \/ \E key \in Keys, ttl \in TTLs : Get(key, ttl)
    \/ \E key \in Keys, value \in Values, ttl \in TTLs : Set(key, value, ttl)
    \/ Clear
    \/ Tick

Spec == Init /\ [][Next]_vars

\* The facades: one of them, with its module-level cache and the shared limiter,
\* called by a single caller while the clock advances.
FacadeKeys == {"a", "b"}
\* configurations of ADK_RATE_LIMIT_RPS examined, in tenths: 0 (disabled) and 1.0
FacadeRps == {0, 10}

InitFacade ==
    /\ now = 0
    /\ ttlcache \in {TTLCache_init(m) : m \in MaxItemsValues}
    /\ last = Idle("init")
    /\ written = Restrict(<<>>, {})
    /\ used = <<>>
    /\ rate_limiter \in {RateLimiter_init(r) : r \in FacadeRps}
    /\ facade \in {[name |-> n, ttl |-> t] : n \in ConfiguredFacades, t \in TTLs}
                  \cup {[name |-> "get_timezone", ttl |-> TZ_TTL]}
    /\ res = NoRes
    /\ waited = NoWait
    /\ threads = NoThreads
    /\ http = NoHttp
    /\ HTTPSessionManager = NoSession
    /\ cache_manager = NoCacheManager
    /\ retrying = NoRetrying

NextFacade ==
    \/ \E key \in FacadeKeys, up \in Upstreams : Call(key, up)
    \/ Tick

SpecFacade == InitFacade /\ [][NextFacade]_vars

\* ------------------------------------------------------------- TTLCache claims

\* C1: after set(k, v, ttl) at storedAt, with k not removed or rewritten since,
\* get(k) returns v while now < storedAt+ttl and None once now >= storedAt+ttl,
\* the instant now = storedAt+ttl included.
C1_TTLCorrectness ==
    [][\A k \in Keys :
        (last'.op = "get" /\ last'.key = k /\ k \in DOMAIN written)
        => IF now < written[k].deadline
           THEN last'.ret = written[k].value
           ELSE last'.ret = None]_vars

\* C2: size() never exceeds max_items (max_items >= 1).
C2_CapacityInvariant == size(ttlcache) <= ttlcache.max_items

C2_Witness ==
    /\ last.op = "set"
    /\ last.evicted # None
    /\ size(ttlcache) = ttlcache.max_items

\* C3: a set of an untracked key into a full cache removes exactly one entry, the one
\* whose last successful get or set is the oldest, whatever the remaining TTLs.
C3_LRUEviction ==
    [][\A k \in Keys :
        (/\ last'.op = "set" /\ last'.key = k
         /\ k \notin KeysOf(ttlcache.cache)
         /\ size(ttlcache) = ttlcache.max_items)
        => /\ Head(used) \in KeysOf(ttlcache.cache)
           /\ KeysOf(ttlcache'.cache) = (KeysOf(ttlcache.cache) \ {Head(used)}) \cup {k}]_vars

\* an unexpired least-recently-used entry was evicted while an expired entry stays
C3_Witness ==
    /\ last.op = "set"
    /\ last.evicted # None
    /\ last.evictedFresh
    /\ \E k \in KeysOf(ttlcache.cache) : ttlcache.expirations[k] < now

\* C4: a get that returns a value moves its key to the most-recently-used end and
\* keeps the order of the other keys; a get that returns None promotes nothing.
C4_RecencyOnHit ==
    [][\A k \in Keys :
        (last'.op = "get" /\ last'.key = k)
        => IF last'.ret # None
           THEN KeyOrder(ttlcache'.cache) = Append(Without(KeyOrder(ttlcache.cache), k), k)
           ELSE KeyOrder(ttlcache'.cache) = Without(KeyOrder(ttlcache.cache), k)]_vars

\* a hit on the least-recently-used of several keys, now most recently used
C4_Witness ==
    /\ last.op = "get"
    /\ last.ret # None
    /\ last.pos = 1
    /\ size(ttlcache) >= 2
    /\ ttlcache.cache[size(ttlcache)].key = last.key

\* C5: a set on a tracked key leaves one entry for it, with the new value, expiring
\* at the clock of that set plus the new ttl, in most-recently-used position, and
\* removes or changes no other entry, also when the cache is full.
C5_Overwrite ==
    [][\A k \in Keys :
        (last'.op = "set" /\ last'.key = k /\ k \in KeysOf(ttlcache.cache))
        => /\ KeysOf(ttlcache'.cache) = KeysOf(ttlcache.cache)
           /\ Cardinality({i \in 1..Len(ttlcache'.cache) : ttlcache'.cache[i].key = k}) = 1
           /\ ValueOf(ttlcache'.cache, k) = written'[k].value
           /\ ttlcache'.expirations[k] = written'[k].deadline
           /\ ttlcache'.cache[Len(ttlcache'.cache)].key = k
           /\ KeyOrder(ttlcache'.cache) = Append(Without(KeyOrder(ttlcache.cache), k), k)
           /\ \A j \in KeysOf(ttlcache.cache) \ {k} :
                 /\ ValueOf(ttlcache'.cache, j) = ValueOf(ttlcache.cache, j)
                 /\ ttlcache'.expirations[j] = ttlcache.expirations[j]]_vars

\* an overwrite in a full cache of a key that was not the most recently used
C5_Witness ==
    /\ last.op = "set"
    /\ last.pos >= 1
    /\ last.pos < size(ttlcache)
    /\ last.evicted = None
    /\ size(ttlcache) = ttlcache.max_items

\* --------------------------------------------------------------- facade claims
\* how a request that did not yield a usable result ended
TransportFailures == {"http_error", "conn_error"}
FailedUpstreams == TransportFailures \cup {"empty_result"}

DomainError(name) == IF name = "get_coordinates" THEN "GeocodingError" ELSE "WeatherAPIError"

\* C6: with a succeeding upstream, a call of get_coordinates, get_current_weather or
\* get_weather_forecast for a key issues no request and returns the stored value
\* while the clock is strictly within the TTL of the value last fetched for the key,
\* and issues exactly one request otherwise (first call, or TTL elapsed).
C6_GetOrFetchScenario ==
    [][\A k \in FacadeKeys :
        (/\ last'.op = "call" /\ last'.key = k
         /\ facade.name \in ConfiguredFacades
         /\ (res'.requests = 1 => res'.upstream = "ok"))
        => IF k \in DOMAIN written /\ now < written[k].deadline
           THEN res'.requests = 0 /\ last'.ret = written[k].value
           ELSE res'.requests = 1]_vars

\* C7: a call whose cache holds an unexpired entry for the key, whatever its value,
\* returns that entry without rate_limiter.wait() and without an HTTP request.
C7_HitBypassesNetwork ==
    [][\A k \in FacadeKeys :
        (/\ last'.op = "call" /\ last'.key = k
         /\ k \in KeysOf(ttlcache.cache)
         /\ now < ttlcache.expirations[k])
        => /\ res'.requests = 0
           /\ res'.waits = 0
           /\ rate_limiter' = rate_limiter
           /\ last'.ret = ValueOf(ttlcache.cache, k)]_vars

\* C8, as stated: a call whose external request fails leaves the TTLCache exactly as
\* it was before the call.
C8_CacheUntouchedOnFailure ==
    [][(last'.op = "call" /\ res'.upstream \in FailedUpstreams)
        => ttlcache' = ttlcache]_vars

\* C8, amended: a call whose external request fails writes nothing: the TTLCache is
\* left as the call's initial lookup left it (an expired entry of the key purged, an
\* entry served by the lookup moved to the most-recently-used end), no entry is added
\* and no value or expiration changes, and the key is left without a usable entry,
\* so the next call for it fetches again.
C8_NothingCachedOnFailure ==
    [][\A k \in FacadeKeys :
        (last'.op = "call" /\ last'.key = k /\ res'.upstream \in FailedUpstreams)
        => /\ ttlcache' = TTLCache_get(ttlcache, k, facade.ttl, now).self
           /\ KeysOf(ttlcache'.cache) \subseteq KeysOf(ttlcache.cache)
           /\ \A j \in KeysOf(ttlcache'.cache) :
                 /\ ValueOf(ttlcache'.cache, j) = ValueOf(ttlcache.cache, j)
                 /\ ttlcache'.expirations[j] = ttlcache.expirations[j]
           /\ \/ k \notin KeysOf(ttlcache'.cache)
              \/ ~Truthy(ValueOf(ttlcache'.cache, k))]_vars

\* a failed call whose lookup purged the key's expired entry
C8_Witness ==
    /\ last.op = "call"
    /\ res.upstream \in FailedUpstreams
    /\ last.pos >= 1
    /\ last.key \notin KeysOf(ttlcache.cache)

C10_ErrorKindsDistinct ==
    [][(/\ facade.name = "get_coordinates"
        /\ last.op = "call" /\ res.upstream = "empty_result"
        /\ last'.op = "call" /\ res'.upstream \in TransportFailures)
        => res'.exc # res.exc]_vars

\* ============================================================== RateLimiter
\* The module-level limiter alone, called by a single caller while the clock
\* advances. time.time() has a finite resolution: successive reads may be equal.
\* values of ADK_RATE_LIMIT_RPS examined, in tenths: -1.0, 0, 0.5, 1.0, 2.5, 5.0
LimiterRps == {-10, 0, 5, 10, 25, 50}
\* longest deque followed
MaxDeque == 11

\* One call of rate_limiter.wait(); time.sleep returns `over` late.
Wait(over) ==
    \E w \in {RateLimiter_wait(rate_limiter, now, over)} :
        /\ w.now <= MaxTime
        /\ Len(w.self.events) <= MaxDeque
        /\ rate_limiter' = w.self
        /\ now' = w.now
        /\ waited' = [op |-> "wait", rps |-> rate_limiter.rps,
                      before |-> rate_limiter.events, t0 |-> now,
                      slept |-> w.slept, raised |-> w.raised]
        /\ UNCHANGED <<app, ttlcache, last, written, used, facade, res, threads, http>>

InitLimiter ==
    /\ now = 0
    /\ ttlcache = TTLCache_init(1)
    /\ last = Idle("init")
    /\ written = Restrict(<<>>, {})
    /\ used = <<>>
    /\ rate_limiter \in {RateLimiter_init(r) : r \in LimiterRps}
    /\ facade = [name |-> None, ttl |-> 0]
    /\ res = NoRes
    /\ waited = NoWait
    /\ threads = NoThreads
    /\ http = NoHttp
    /\ HTTPSessionManager = NoSession
    /\ cache_manager = NoCacheManager
    /\ retrying = NoRetrying

NextLimiter ==
    \/ \E over \in {0, 1} : Wait(over)
    \/ Tick

SpecLimiter == InitLimiter /\ [][NextLimiter]_vars

\* the admission timestamps inside the closed window [t - window_sec, t]
InWindow(self, t) ==
    {i \in 1..Len(self.events) :
        self.events[i] >= t - self.window_sec /\ self.events[i] <= t}

\* C11: with rps >= 1 and a single caller, at every instant the number of admission
\* timestamps recorded within [now - window_sec, now] is at most int(rps), also when
\* the sleeper wakes exactly window_sec after the oldest event or sleep_for is 0.
C11_WindowInvariant ==
    rate_limiter.rps >= 10
    => Cardinality(InWindow(rate_limiter, now)) <= int(rate_limiter.rps)

\* C13: with rps = 5.0 and window_sec = 1, consecutive wait() calls of one caller are
\* admitted so that the i-th and the (i+5)-th admission are at least one window
\* apart (N calls take at least ceil(N/5) - 1 seconds from first to last admission).
C13_ThroughputBound ==
    rate_limiter.rps = 50
    => \A i \in 1..Len(rate_limiter.events) :
          i + 5 <= Len(rate_limiter.events)
          => rate_limiter.events[i + 5] - rate_limiter.events[i]
                 >= rate_limiter.window_sec

\* the timestamps of the deque that are not older than window_sec at clock t
Live(self, t) == SelectSeq(self.events, LAMBDA e : e >= t - self.window_sec)

\* C14: a wait() call (rps > 0) that finds fewer than int(rps) timestamps left in the
\* window after pruning records exactly one timestamp, the current clock, and
\* returns without sleeping and without raising.
C14_FastPath ==
    [][(/\ waited'.op = "wait"
        /\ rate_limiter.rps > 0
        /\ Len(Live(rate_limiter, now)) < int(rate_limiter.rps))
       => /\ rate_limiter'.events = Append(Live(rate_limiter, now), now)
          /\ now' = now
          /\ ~waited'.slept
          /\ waited'.raised = None]_vars

\* a call that found only stale timestamps: all were pruned, the call was admitted
C14_Witness ==
    /\ waited.op = "wait"
    /\ waited.rps = 25
    /\ Len(waited.before) = 2
    /\ ~waited.slept
    /\ waited.raised = None
    /\ rate_limiter.events = <<waited.t0>>

\* C15: wait() returns normally and never raises, for every rps (non-integer values
\* and values strictly between 0 and 1 included) and every state of the deque, the
\* empty deque included.
C15_WaitNeverRaises == waited.op = "wait" => waited.raised = None

\* C16: with rps <= 0 every wait() call returns immediately: the clock does not
\* move, nothing is slept, no timestamp is recorded, nothing is raised.
C16_DisabledLimiter ==
    [][(waited'.op = "wait" /\ rate_limiter.rps <= 0)
       => /\ rate_limiter' = rate_limiter
          /\ now' = now
          /\ ~waited'.slept
          /\ waited'.raised = None]_vars

\* a disabled limiter (rps = 0) called after the clock has advanced
C16_Witness ==
    /\ waited.op = "wait"
    /\ waited.rps = 0
    /\ waited.t0 > 0
    /\ rate_limiter.events = <<>>

\* ================================================== RateLimiter, concurrent
\* Several threads call rate_limiter.wait() on the one module-level limiter, which
\* holds no lock. A step is one statement of wait(); the interpreter may switch
\* threads between any two of them. A thread is [pc, now, wake, slept, at, raised]:
\* pc the line it is about to execute ("idle" outside wait()), now its local `now`,
\* wake the clock at which its time.sleep ends, slept / at / raised what its current
\* or last call did (at: the timestamp it recorded, -1 before it records one).
Threads == {1, 2}
\* rps of the limiter the threads share, in tenths (1.0)
ThreadRps == 10

IdleThread ==
    [pc |-> "idle", now |-> 0, wake |-> 0, slept |-> FALSE, at |-> -1, raised |-> None]

\* lines 39-43: if self.rps <= 0: return; now = time.time(); cutoff = now - window_sec
L39_enter(p) ==
    /\ threads[p].pc = "idle"
    /\ threads' = [threads EXCEPT ![p] =
            IF rate_limiter.rps <= 0 THEN IdleThread
            ELSE [IdleThread EXCEPT !.pc = "L45", !.now = now]]
    /\ UNCHANGED <<app, now, ttlcache, last, written, used, rate_limiter, facade, res, waited,
                   http>>

\* lines 45 and 56: while self.events and self.events[0] < cutoff
L45_while(p) ==
    /\ threads[p].pc \in {"L45", "L56"}
    /\ threads' = [threads EXCEPT ![p].pc =
            IF /\ rate_limiter.events # <<>>
               /\ rate_limiter.events[1] < threads[p].now - rate_limiter.window_sec
            THEN (IF @ = "L45" THEN "L46" ELSE "L57")
            ELSE (IF @ = "L45" THEN "L49" ELSE "L60")]
    /\ UNCHANGED <<app, now, ttlcache, last, written, used, rate_limiter, facade, res, waited,
                   http>>

\* lines 46 and 57: self.events.popleft() (IndexError on an empty deque)
L46_popleft(p) ==
    /\ threads[p].pc \in {"L46", "L57"}
    /\ IF rate_limiter.events = <<>>
       THEN /\ threads' = [threads EXCEPT ![p].pc = "idle", ![p].raised = "IndexError"]
            /\ UNCHANGED rate_limiter
       ELSE /\ rate_limiter' = [rate_limiter EXCEPT !.events = Tail(@)]
            /\ threads' = [threads EXCEPT ![p].pc = IF @ = "L46" THEN "L45" ELSE "L56"]
    /\ UNCHANGED <<app, now, ttlcache, last, written, used, facade, res, waited, http>>

\* line 49: if len(self.events) >= int(self.rps)
L49_if_full(p) ==
    /\ threads[p].pc = "L49"
    /\ threads' = [threads EXCEPT ![p].pc =
            IF Len(rate_limiter.events) >= int(rate_limiter.rps) THEN "L50" ELSE "L60"]
    /\ UNCHANGED <<app, now, ttlcache, last, written, used, rate_limiter, facade, res, waited,
                   http>>

\* lines 50-52: sleep_for = self.events[0] + self.window_sec - now;
\* if sleep_for > 0: time.sleep(sleep_for) -- the sleep starts at the current clock
L50_sleep_for(p) ==
    /\ threads[p].pc = "L50"
    /\ threads' = [threads EXCEPT ![p] =
            IF rate_limiter.events = <<>>
            THEN [@ EXCEPT !.pc = "idle", !.raised = "IndexError"]
            ELSE IF rate_limiter.events[1] + rate_limiter.window_sec - threads[p].now > 0
            THEN [@ EXCEPT !.pc = "L52",
                           !.wake = now + rate_limiter.events[1]
                                        + rate_limiter.window_sec - threads[p].now]
            ELSE [@ EXCEPT !.pc = "L60"]]
    /\ UNCHANGED <<app, now, ttlcache, last, written, used, rate_limiter, facade, res, waited,
                   http>>

\* lines 52-54: time.sleep returns, at its deadline or later; now = time.time()
L52_wake(p) ==
    /\ threads[p].pc = "L52"
    /\ now >= threads[p].wake
    /\ threads' = [threads EXCEPT ![p].pc = "L56", ![p].now = now, ![p].wake = 0,
                                  ![p].slept = TRUE]
    /\ UNCHANGED <<app, now, ttlcache, last, written, used, rate_limiter, facade, res, waited,
                   http>>

\* line 60: self.events.append(time.time())
L60_append(p) ==
    /\ threads[p].pc = "L60"
    /\ Len(rate_limiter.events) < MaxEvents
    /\ rate_limiter' = [rate_limiter EXCEPT !.events = Append(@, now)]
    /\ threads' = [threads EXCEPT ![p].pc = "idle", ![p].now = 0, ![p].at = now]
    /\ UNCHANGED <<app, now, ttlcache, last, written, used, facade, res, waited, http>>

InitLimiterThreads ==
    /\ now = 0
    /\ ttlcache = TTLCache_init(1)
    /\ last = Idle("init")
    /\ written = Restrict(<<>>, {})
    /\ used = <<>>
    /\ rate_limiter = RateLimiter_init(ThreadRps)
    /\ facade = [name |-> None, ttl |-> 0]
    /\ res = NoRes
    /\ waited = NoWait
    /\ threads = [p \in Threads |-> IdleThread]
    /\ http = NoHttp
    /\ HTTPSessionManager = NoSession
    /\ cache_manager = NoCacheManager
    /\ retrying = NoRetrying

NextLimiterThreads ==
    \/ \E p \in Threads : L39_enter(p)
    \/ \E p \in Threads : L45_while(p)
    \/ \E p \in Threads : L46_popleft(p)
    \/ \E p \in Threads : L49_if_full(p)
    \/ \E p \in Threads : L50_sleep_for(p)
    \/ \E p \in Threads : L52_wake(p)
    \/ \E p \in Threads : L60_append(p)
    \/ Tick

SpecLimiterThreads == InitLimiterThreads /\ [][NextLimiterThreads]_vars

\* C12: with two or more callers inside wait() in any interleaving, the
\* prune-check-record sequence behaves as one critical section, so the admissions
\* recorded in any window of window_sec never exceed int(rps): with rps = 1.0, two
\* callers that both saw a full window and slept are not both admitted within one
\* window of each other.
C12_SleepersNotBothAdmitted ==
    \A p, q \in Threads :
        (/\ p # q
         /\ threads[p].slept /\ threads[p].at >= 0
         /\ threads[q].slept /\ threads[q].at >= 0
         /\ threads[p].at >= threads[q].at)
        => threads[p].at - threads[q].at >= rate_limiter.window_sec

\* ========================================================== HTTP transport
\* The session of HTTPSessionManager.get_session(): every request of a facade goes
\* through an HTTPAdapter whose max_retries is Retry(total=Config.RETRY_TOTAL,
\* backoff_factor=Config.RETRY_BACKOFF, status_forcelist=[429, 500, 502, 503, 504]).
\* Config.RETRY_TOTAL (default of ADK_RETRY_TOTAL)
RETRY_TOTAL == 3

status_forcelist == {429, 500, 502, 503, 504}

get_session_without_503 ==
    [total |-> RETRY_TOTAL, status_forcelist |-> status_forcelist \ {503}]

get_session_with_404 ==
    [total |-> RETRY_TOTAL, status_forcelist |-> status_forcelist \cup {404}]

\* the retry policy mounted on the session
get_session == [total |-> RETRY_TOTAL, status_forcelist |-> status_forcelist]

\* What the upstream answers to one attempt: a status line, with or without a
\* Retry-After header; status 0 stands for a connection-level failure (no response).
Answers ==
    {[status |-> c, retry_after |-> FALSE] : c \in {0, 200, 401, 404, 503}}
    \cup {[status |-> 413, retry_after |-> TRUE]}

\* urllib3 Retry.RETRY_AFTER_STATUS_CODES (respect_retry_after_header is left True)
RETRY_AFTER_STATUS_CODES == {413, 429, 503}

\* urllib3 Retry.is_retry for a GET: a status of the forcelist, or a Retry-After
\* header on one of RETRY_AFTER_STATUS_CODES while retries remain
Retry_is_retry(retry, answer) ==
    \/ answer.status \in retry.status_forcelist
    \/ /\ retry.total > 0
       /\ answer.retry_after
       /\ answer.status \in RETRY_AFTER_STATUS_CODES

\* urllib3 Retry.increment / Retry.is_exhausted
Retry_increment(retry) == [retry EXCEPT !.total = @ - 1]

Retry_is_exhausted(retry) == retry.total < 0

\* response.raise_for_status(): HTTPError for a 4xx or 5xx status
raise_for_status(answer) == answer.status >= 400 /\ answer.status < 600

\* session.get(...) followed by raise_for_status(): every exchange the upstream can
\* produce under the policy `retry` after the attempts `sofar` -- the statuses of the
\* attempts made, and how the request ended for the facade
RECURSIVE session_get(_, _)
session_get(retry, sofar) ==
    UNION {
        IF answer.status = 0 \/ Retry_is_retry(retry, answer)
        THEN IF Retry_is_exhausted(Retry_increment(retry))
             THEN {[statuses |-> Append(sofar, answer),
                    outcome |-> IF answer.status = 0 THEN "conn_error" ELSE "http_error"]}
             ELSE session_get(Retry_increment(retry), Append(sofar, answer))
        ELSE {[statuses |-> Append(sofar, answer),
               outcome |-> IF raise_for_status(answer) THEN "http_error" ELSE "ok"]}
        : answer \in Answers}

Exchanges == session_get(get_session, <<>>)

\* the exchanges as the facades see them: the body of a 2xx answer is `payload`
TransportUpstreams ==
    {[outcome |-> x.outcome, payload |-> p, delay |-> 0, over |-> 0,
      statuses |-> x.statuses] :
        x \in {y \in Exchanges : y.outcome = "ok"}, p \in Values}
    \cup
    {[outcome |-> x.outcome, payload |-> None, delay |-> 0, over |-> 0,
      statuses |-> x.statuses] :
        x \in {y \in Exchanges : y.outcome # "ok"}}

\* One call of the facade followed, its request answered by the exchange `up`.
Request(key, up) ==
    \E r \in {CallFacade(facade.name, ttlcache, rate_limiter, key, facade.ttl, now, up)} :
    \E stored \in {r.requests = 1 /\ r.upstream = "ok" /\ r.exc = None} :
        /\ r.now <= MaxTime
        /\ Len(r.limiter.events) <= MaxEvents
        /\ ttlcache' = r.cache
        /\ rate_limiter' = r.limiter
        /\ now' = r.now
        /\ last' = Obs("call", key, r.ret, IndexOf(ttlcache.cache, key), None, FALSE)
        /\ res' = [exc |-> r.exc, msg |-> r.msg, waits |-> r.waits,
                   requests |-> r.requests, upstream |-> r.upstream]
        /\ http' = [statuses |-> IF r.requests = 1 THEN up.statuses ELSE <<>>]
        /\ written' = [k \in ((DOMAIN written \cap KeysOf(r.cache.cache)) \ {key})
                              \cup (IF stored THEN {key}
                                    ELSE {key} \cap DOMAIN written \cap KeysOf(r.cache.cache)) |->
                          IF k = key /\ stored
                          THEN [deadline |-> r.now + facade.ttl, value |-> r.ret]
                          ELSE written[k]]
        /\ used' = KeyOrder(r.cache.cache)
        /\ UNCHANGED <<app, facade, waited, threads>>

TransportKeys == {"a"}

InitTransport ==
    /\ now = 0
    /\ ttlcache = TTLCache_init(1)
    /\ last = Idle("init")
    /\ written = Restrict(<<>>, {})
    /\ used = <<>>
    /\ rate_limiter = RateLimiter_init(0)
    /\ facade \in {[name |-> n, ttl |-> 1] : n \in ConfiguredFacades}
                  \cup {[name |-> "get_timezone", ttl |-> TZ_TTL]}
    /\ res = NoRes
    /\ waited = NoWait
    /\ threads = NoThreads
    /\ http = NoHttp
    /\ HTTPSessionManager = NoSession
    /\ cache_manager = NoCacheManager
    /\ retrying = NoRetrying

NextTransport ==
    \/ \E key \in TransportKeys, up \in TransportUpstreams : Request(key, up)
    \/ Tick

SpecTransport == InitTransport /\ [][NextTransport]_vars

\* the request of the last call was answered 503 at every attempt
Always503 ==
    /\ last.op = "call"
    /\ http.statuses # <<>>
    /\ \A i \in 1..Len(http.statuses) : http.statuses[i].status = 503

\* the request of the last call was answered 503, then 200
SecondAttemptSucceeds ==
    /\ last.op = "call"
    /\ Len(http.statuses) >= 2
    /\ http.statuses[1].status = 503
    /\ http.statuses[2].status = 200

NonRetryableStatus(answer) ==
    /\ answer.status >= 400 /\ answer.status < 600
    /\ answer.status \notin {429, 500, 502, 503, 504}

\* the call wrote nothing to the cache: no entry added, no value or expiration changed
NothingCached ==
    /\ KeysOf(ttlcache'.cache) \subseteq KeysOf(ttlcache.cache)
    /\ \A j \in KeysOf(ttlcache'.cache) :
          /\ ValueOf(ttlcache'.cache, j) = ValueOf(ttlcache.cache, j)
          /\ ttlcache'.expirations[j] = ttlcache.expirations[j]

CacheThreads == {1, 2}
CacheThreadKeys == {"a", "b"}

IdleCacheThread ==
    [pc |-> "idle", key |-> None, value |-> None, ttl |-> 0, oldest_key |-> None,
     raised |-> None]

Returned(p) == [threads EXCEPT ![p] = IdleCacheThread]

Raised(p, exc) == [threads EXCEPT ![p] = [IdleCacheThread EXCEPT !.raised = exc]]

others == <<last, written, used, rate_limiter, facade, res, waited, http>>

\* a thread calls get(key, ttl)
get_enter(p, key) ==
    /\ threads[p].pc = "idle"
    /\ threads' = [threads EXCEPT ![p] = [IdleCacheThread EXCEPT !.pc = "L74", !.key = key]]
    /\ UNCHANGED <<app, now, ttlcache, others>>

\* line 74: if key not in self.cache: return None
L74_if_absent(p) ==
    /\ threads[p].pc = "L74"
    /\ IF threads[p].key \notin KeysOf(ttlcache.cache)
       THEN threads' = Returned(p)
       ELSE threads' = [threads EXCEPT ![p].pc = "L78"]
    /\ UNCHANGED <<app, now, ttlcache, others>>

\* line 78: if time.time() > self.expirations[key]
L78_if_expired(p) ==
    /\ threads[p].pc = "L78"
    /\ threads' = IF threads[p].key \notin DOMAIN ttlcache.expirations
                  THEN Raised(p, "KeyError")
                  ELSE [threads EXCEPT ![p].pc =
                           IF now > ttlcache.expirations[threads[p].key]
                           THEN "L79" ELSE "L83"]
    /\ UNCHANGED <<app, now, ttlcache, others>>

\* the key _remove_key was called with: `key` from get, `oldest_key` from set
RemovedKey(p) == IF threads[p].pc \in {"L79", "L79e"} THEN threads[p].key
                 ELSE threads[p].oldest_key

\* lines 99-100 (called from line 79 or 90): if key in self.cache: del self.cache[key]
L99_del_cache(p) ==
    /\ threads[p].pc \in {"L79", "L90"}
    /\ ttlcache' = [ttlcache EXCEPT !.cache = dict_del(@, RemovedKey(p))]
    /\ threads' = [threads EXCEPT ![p].pc = IF @ = "L79" THEN "L79e" ELSE "L90e"]
    /\ UNCHANGED <<app, now, others>>

\* lines 101-102: if key in self.expirations: del self.expirations[key];
\* back in get, line 80: return None
L101_del_expiration(p) ==
    /\ threads[p].pc \in {"L79e", "L90e"}
    /\ ttlcache' = [ttlcache EXCEPT !.expirations =
                        Restrict(@, DOMAIN @ \ {RemovedKey(p)})]
    /\ threads' = IF threads[p].pc = "L79e" THEN Returned(p)
                  ELSE [threads EXCEPT ![p].pc = "L93"]
    /\ UNCHANGED <<app, now, others>>

\* line 83: self.cache.move_to_end(key)
L83_move_to_end(p) ==
    /\ threads[p].pc = "L83"
    /\ IF threads[p].key \notin KeysOf(ttlcache.cache)
       THEN threads' = Raised(p, "KeyError") /\ UNCHANGED ttlcache
       ELSE /\ ttlcache' = [ttlcache EXCEPT !.cache = move_to_end(@, threads[p].key)]
            /\ threads' = [threads EXCEPT ![p].pc = "L84"]
    /\ UNCHANGED <<app, now, others>>

\* line 84: return self.cache[key]
L84_return(p) ==
    /\ threads[p].pc = "L84"
    /\ threads' = IF threads[p].key \notin KeysOf(ttlcache.cache)
                  THEN Raised(p, "KeyError")
                  ELSE Returned(p)
    /\ UNCHANGED <<app, now, ttlcache, others>>

\* a thread calls set(key, value, ttl)
set_enter(p, key, value, ttl) ==
    /\ threads[p].pc = "idle"
    /\ threads' = [threads EXCEPT ![p] =
            [IdleCacheThread EXCEPT !.pc = "L88", !.key = key, !.value = value,
                                    !.ttl = ttl]]
    /\ UNCHANGED <<app, now, ttlcache, others>>

\* line 88: if len(self.cache) >= self.max_items and key not in self.cache
L88_if_full(p) ==
    /\ threads[p].pc = "L88"
    /\ threads' = [threads EXCEPT ![p].pc =
            IF /\ Len(ttlcache.cache) >= ttlcache.max_items
               /\ threads[p].key \notin KeysOf(ttlcache.cache)
            THEN "L89" ELSE "L93"]
    /\ UNCHANGED <<app, now, ttlcache, others>>

\* line 89: oldest_key = next(iter(self.cache))
L89_oldest_key(p) ==
    /\ threads[p].pc = "L89"
    /\ threads' = IF ttlcache.cache = <<>>
                  THEN Raised(p, "StopIteration")
                  ELSE [threads EXCEPT ![p].pc = "L90",
                                       ![p].oldest_key = ttlcache.cache[1].key]
    /\ UNCHANGED <<app, now, ttlcache, others>>

\* line 93: self.cache[key] = value
L93_store_value(p) ==
    /\ threads[p].pc = "L93"
    /\ ttlcache' = [ttlcache EXCEPT !.cache =
                        dict_setitem(@, threads[p].key, threads[p].value)]
    /\ threads' = [threads EXCEPT ![p].pc = "L94"]
    /\ UNCHANGED <<app, now, others>>

\* line 94: self.expirations[key] = time.time() + ttl
L94_store_expiration(p) ==
    /\ threads[p].pc = "L94"
    /\ ttlcache' = [ttlcache EXCEPT !.expirations =
            [k \in DOMAIN @ \cup {threads[p].key} |->
                IF k = threads[p].key THEN now + threads[p].ttl ELSE @[k]]]
    /\ threads' = [threads EXCEPT ![p].pc = "L95"]
    /\ UNCHANGED <<app, now, others>>

\* line 95: self.cache.move_to_end(key); set returns
L95_move_to_end(p) ==
    /\ threads[p].pc = "L95"
    /\ IF threads[p].key \notin KeysOf(ttlcache.cache)
       THEN threads' = Raised(p, "KeyError") /\ UNCHANGED ttlcache
       ELSE /\ ttlcache' = [ttlcache EXCEPT !.cache = move_to_end(@, threads[p].key)]
            /\ threads' = Returned(p)
    /\ UNCHANGED <<app, now, others>>

InitCacheThreads ==
    /\ now = 0
    /\ ttlcache = TTLCache_init(1)
    /\ last = Idle("init")
    /\ written = Restrict(<<>>, {})
    /\ used = <<>>
    /\ rate_limiter = RateLimiter_init(0)
    /\ facade = [name |-> None, ttl |-> 0]
    /\ res = NoRes
    /\ waited = NoWait
    /\ threads = [p \in CacheThreads |-> IdleCacheThread]
    /\ http = NoHttp
    /\ HTTPSessionManager = NoSession
    /\ cache_manager = NoCacheManager
    /\ retrying = NoRetrying

NextCacheThreads ==
    \/ \E p \in CacheThreads, key \in CacheThreadKeys : get_enter(p, key)
    \/ \E p \in CacheThreads : L74_if_absent(p)
    \/ \E p \in CacheThreads : L78_if_expired(p)
    \/ \E p \in CacheThreads : L99_del_cache(p)
    \/ \E p \in CacheThreads : L101_del_expiration(p)
    \/ \E p \in CacheThreads : L83_move_to_end(p)
    \/ \E p \in CacheThreads : L84_return(p)
    \/ \E p \in CacheThreads, key \in CacheThreadKeys : set_enter(p, key, "v1", 1)
    \/ \E p \in CacheThreads : L88_if_full(p)
    \/ \E p \in CacheThreads : L89_oldest_key(p)
    \/ \E p \in CacheThreads : L93_store_value(p)
    \/ \E p \in CacheThreads : L94_store_expiration(p)
    \/ \E p \in CacheThreads : L95_move_to_end(p)
    \/ Tick

SpecCacheThreads == InitCacheThreads /\ [][NextCacheThreads]_vars

\* C19: with two or more threads calling get and set (evicting sets included) on one
\* cache in any interleaving, no operation observes a torn state: the first
\* statement of a get or set finds every key of the value map with an expiration,
\* no get or set raises, and size() <= max_items holds when a set completes.
C19_MutualExclusion ==
    [][\A p \in CacheThreads :
        /\ (threads[p].pc \in {"L74", "L88"} /\ threads'[p] # threads[p])
           => KeysOf(ttlcache.cache) \subseteq DOMAIN ttlcache.expirations
        /\ threads'[p].raised = None
        /\ (threads[p].pc = "L95" /\ threads'[p].pc = "idle")
           => size(ttlcache') <= ttlcache.max_items]_vars

\* ======================================================= facade, concurrent
\* Several threads call get_current_weather, which shares weather_cache and
\* rate_limiter and holds no lock and no record of the keys being fetched. A step is
\* the cache lookup, the admission by the limiter, the sending of the request, or
\* the arrival of its outcome; each call on weather_cache or rate_limiter is taken
\* as one step. A thread is [pc, key]: pc the line it is about to execute.
FacadeThreads == {1, 2}

IdleFacadeThread == [pc |-> "idle", key |-> None]

\* lines 67-71: cached = weather_cache.get(cache_key, ttl); if cached: return cached
L68_lookup(p, key) ==
    \E g \in {TTLCache_get(ttlcache, key, facade.ttl, now)} :
        /\ threads[p].pc = "idle"
        /\ ttlcache' = g.self
        /\ threads' = [threads EXCEPT ![p] =
                IF Truthy(g.ret) THEN IdleFacadeThread ELSE [pc |-> "L74", key |-> key]]
        /\ UNCHANGED <<app, now, last, written, used, rate_limiter, facade, res, waited, http>>

\* line 74: rate_limiter.wait()
L74_wait(p) ==
    \E w \in {RateLimiter_wait(rate_limiter, now, 0)} :
        /\ threads[p].pc = "L74"
        /\ w.now <= MaxTime
        /\ Len(w.self.events) <= MaxEvents
        /\ rate_limiter' = w.self
        /\ now' = w.now
        /\ threads' = [threads EXCEPT ![p] =
                IF w.raised # None THEN IdleFacadeThread ELSE [@ EXCEPT !.pc = "L87"]]
        /\ UNCHANGED <<app, ttlcache, last, written, used, facade, res, waited, http>>

\* lines 87-91: session.get(...) sends the request
L87_request(p) ==
    /\ threads[p].pc = "L87"
    /\ threads' = [threads EXCEPT ![p].pc = "L92"]
    /\ UNCHANGED <<app, now, ttlcache, last, written, used, rate_limiter, facade, res, waited,
                   http>>

\* lines 92-102: the outcome arrives; on success weather_cache.set(cache_key,
\* weather_data, ttl) and return, otherwise raise WeatherAPIError
L92_response(p, outcome, payload) ==
    /\ threads[p].pc = "L92"
    /\ ttlcache' = IF outcome = "ok"
                   THEN TTLCache_set(ttlcache, threads[p].key, payload, facade.ttl, now)
                   ELSE ttlcache
    /\ threads' = [threads EXCEPT ![p] = IdleFacadeThread]
    /\ UNCHANGED <<app, now, last, written, used, rate_limiter, facade, res, waited, http>>

InitFacadeThreads ==
    /\ now = 0
    /\ ttlcache = TTLCache_init(1)
    /\ last = Idle("init")
    /\ written = Restrict(<<>>, {})
    /\ used = <<>>
    /\ rate_limiter = RateLimiter_init(50)
    /\ facade = [name |-> "get_current_weather", ttl |-> 1]
    /\ res = NoRes
    /\ waited = NoWait
    /\ threads = [p \in FacadeThreads |-> IdleFacadeThread]
    /\ http = NoHttp
    /\ HTTPSessionManager = NoSession
    /\ cache_manager = NoCacheManager
    /\ retrying = NoRetrying

NextFacadeThreads ==
    \/ \E p \in FacadeThreads, key \in FacadeKeys : L68_lookup(p, key)
    \/ \E p \in FacadeThreads : L74_wait(p)
    \/ \E p \in FacadeThreads : L87_request(p)
    \/ \E p \in FacadeThreads, payload \in Values : L92_response(p, "ok", payload)
    \/ \E p \in FacadeThreads, outcome \in TransportFailures :
           L92_response(p, outcome, None)
    \/ Tick

SpecFacadeThreads == InitFacadeThreads /\ [][NextFacadeThreads]_vars

\* the cache holds an unexpired, usable value for the key
Fresh(key) ==
    /\ key \in KeysOf(ttlcache.cache)
    /\ now < ttlcache.expirations[key]
    /\ Truthy(ValueOf(ttlcache.cache, key))

\* C20: callers that concurrently request the same absent or expired key cause at
\* most one external call for it per TTL period: while a request for a key is
\* outstanding no other request for that key is outstanding, and the cache holds no
\* fresh value for the key that would have made the request unnecessary.
C20_SingleFlight ==
    \A p \in FacadeThreads :
        threads[p].pc = "L92"
        => /\ \A q \in FacadeThreads \ {p} :
                 ~(threads[q].pc = "L92" /\ threads[q].key = threads[p].key)
           /\ ~Fresh(threads[p].key)

\* ====================================================== HTTPSessionManager
\* Several threads call HTTPSessionManager.get_session(), a classmethod that holds
\* no lock. A step is one statement; every `cls._instance` is a fresh read of the
\* class attribute. A thread is [pc, ret]: pc the line it is about to execute, ret
\* the Session its last call returned (0: none yet). Session objects are numbered in
\* creation order; sessions[i] counts the retry adapters mounted on Session i per
\* prefix.
SessionThreads == {1, 2}

IdleSessionThread == [pc |-> "idle", ret |-> 0]

rest == <<now, ttlcache, last, written, used, rate_limiter, facade, res, waited, http,
          cache_manager, retrying>>

get_session_enter(p) ==
    /\ threads[p].pc = "idle"
    /\ threads' = [threads EXCEPT ![p].pc = "L17"]
    /\ UNCHANGED <<HTTPSessionManager, rest>>

\* line 17: if cls._instance is None
L17_if_none(p) ==
    /\ threads[p].pc = "L17"
    /\ threads' = [threads EXCEPT ![p].pc =
            IF HTTPSessionManager.instance = 0 THEN "L18" ELSE "L27"]
    /\ UNCHANGED <<HTTPSessionManager, rest>>

\* lines 18-24: cls._instance = requests.Session(); retry = Retry(...);
\* adapter = HTTPAdapter(max_retries=retry)
L18_new_session(p) ==
    /\ threads[p].pc = "L18"
    /\ HTTPSessionManager' =
           [instance |-> Len(HTTPSessionManager.sessions) + 1,
            sessions |-> Append(HTTPSessionManager.sessions, [http |-> 0, https |-> 0])]
    /\ threads' = [threads EXCEPT ![p].pc = "L25"]
    /\ UNCHANGED rest

\* line 25: cls._instance.mount("http://", adapter)
L25_mount_http(p) ==
    /\ threads[p].pc = "L25"
    /\ HTTPSessionManager' = [HTTPSessionManager EXCEPT
           !.sessions[HTTPSessionManager.instance].http = @ + 1]
    /\ threads' = [threads EXCEPT ![p].pc = "L26"]
    /\ UNCHANGED rest

\* line 26: cls._instance.mount("https://", adapter)
L26_mount_https(p) ==
    /\ threads[p].pc = "L26"
    /\ HTTPSessionManager' = [HTTPSessionManager EXCEPT
           !.sessions[HTTPSessionManager.instance].https = @ + 1]
    /\ threads' = [threads EXCEPT ![p].pc = "L27"]
    /\ UNCHANGED rest

\* line 27: return cls._instance
L27_return(p) ==
    /\ threads[p].pc = "L27"
    /\ threads' = [threads EXCEPT ![p] =
            [pc |-> "idle", ret |-> HTTPSessionManager.instance]]
    /\ UNCHANGED <<HTTPSessionManager, rest>>

InitSession ==
    /\ now = 0
    /\ ttlcache = TTLCache_init(1)
    /\ last = Idle("init")
    /\ written = Restrict(<<>>, {})
    /\ used = <<>>
    /\ rate_limiter = RateLimiter_init(0)
    /\ facade = [name |-> None, ttl |-> 0]
    /\ res = NoRes
    /\ waited = NoWait
    /\ threads = [p \in SessionThreads |-> IdleSessionThread]
    /\ http = NoHttp
    /\ HTTPSessionManager = NoSession
    /\ cache_manager = NoCacheManager
    /\ retrying = NoRetrying

NextSession ==
    \/ \E p \in SessionThreads : get_session_enter(p)
    \/ \E p \in SessionThreads : L17_if_none(p)
    \/ \E p \in SessionThreads : L18_new_session(p)
    \/ \E p \in SessionThreads : L25_mount_http(p)
    \/ \E p \in SessionThreads : L26_mount_https(p)
    \/ \E p \in SessionThreads : L27_return(p)

SpecSession == InitSession /\ [][NextSession]_vars

\* C21: every call of get_session(), first calls made concurrently included, returns
\* the same Session object, and that object is created once and configured with the
\* retry adapter exactly once: one mount per prefix, done before it is returned.
C21_SingleSession ==
    /\ Len(HTTPSessionManager.sessions) <= 1
    /\ \A p, q \in SessionThreads :
          (threads[p].ret # 0 /\ threads[q].ret # 0) => threads[p].ret = threads[q].ret
    /\ \A p \in SessionThreads :
          threads[p].ret # 0
          => HTTPSessionManager.sessions[threads[p].ret] = [http |-> 1, https |-> 1]

\* ================================================= capacities of any sign
\* TTLCache.__init__ stores max_items as given: Config.MAX_CACHE_ITEMS is
\* int(os.getenv("ADK_MAX_CACHE_ITEMS", "1000")), any integer.
CapacityValues == {-1, 0, 1, 2}

\* set(): `oldest_key = next(iter(self.cache))` raises StopIteration when the
\* capacity test of line 88 passes on an empty cache
TTLCache_set_raises(self, key) ==
    /\ Len(self.cache) >= self.max_items
    /\ key \notin KeysOf(self.cache)
    /\ self.cache = <<>>

\* set(key, value, ttl) on a cache of any capacity; res.exc is the exception raised
SetAny(key, value, ttl) ==
    IF TTLCache_set_raises(ttlcache, key)
    THEN /\ last' = Obs("set", key, None, 0, None, FALSE)
         /\ res' = [NoRes EXCEPT !.exc = "StopIteration"]
         /\ UNCHANGED <<app, now, ttlcache, written, used, rate_limiter, facade, waited,
                        threads, http>>
    ELSE Set(key, value, ttl)

InitCapacity ==
    /\ now = 0
    /\ ttlcache \in {TTLCache_init(m) : m \in CapacityValues}
    /\ last = Idle("init")
    /\ written = Restrict(<<>>, {})
    /\ used = <<>>
    /\ rate_limiter = RateLimiter_init(50)
    /\ facade = [name |-> None, ttl |-> 0]
    /\ res = NoRes
    /\ waited = NoWait
    /\ threads = NoThreads
    /\ http = NoHttp
    /\ HTTPSessionManager = NoSession
    /\ cache_manager = NoCacheManager
    /\ retrying = NoRetrying

NextCapacity ==
    \/ \E key \in Keys, ttl \in TTLs : Get(key, ttl)
    \/ \E key \in Keys, value \in Values, ttl \in TTLs : SetAny(key, value, ttl)
    \/ Clear
    \/ Tick

SpecCapacity == InitCapacity /\ [][NextCapacity]_vars

\* C22: whatever capacity a TTLCache was constructed with (a capacity of zero or less
\* being refused at construction) and whatever its state, get, set, clear and size
\* do not raise -- set on an empty cache included.
C22_NeverRaises == res.exc = None

\* ============================================ the ttl argument of get
\* C23: for every key and every pair of read-time ttl arguments, get(key, ttl1) and
\* get(key, ttl2) at the same instant return the same result and leave the same
\* cache state.
C23_ReadTtlIgnored ==
    \A key \in Keys : \A ttl1, ttl2 \in TTLs :
        TTLCache_get(ttlcache, key, ttl1, now) = TTLCache_get(ttlcache, key, ttl2, now)

\* a get has just hit an entry at the very end of its set-time lifetime, and another
\* tracked entry is past its own
C23_Witness ==
    /\ last.op = "get"
    /\ last.ret # None
    /\ now = ttlcache.expirations[last.key]
    /\ \E k \in KeysOf(ttlcache.cache) : now > ttlcache.expirations[k]

\* ============================================== protocol order on a miss
\* the step wrote the entry of `key`: the key is tracked afterwards with a value or
\* an expiration it did not have before
WroteEntry(key) ==
    /\ key \in KeysOf(ttlcache'.cache)
    /\ \/ key \notin KeysOf(ttlcache.cache)
       \/ ValueOf(ttlcache'.cache, key) # ValueOf(ttlcache.cache, key)
       \/ ttlcache'.expirations[key] # ttlcache.expirations[key]

\* C24: in every facade a call issues its request only after one rate_limiter.wait()
\* of that call has returned (never a request without an admission, never after a
\* wait that raised, never a second wait), with the clock at return not before the
\* admission; and the call writes the key's cache entry only when its request
\* succeeded, storing the value it then returns, stamped at the time of return.
C24_ProtocolOrder ==
    [][\A k \in FacadeKeys :
        (last'.op = "call" /\ last'.key = k)
        => /\ res'.waits <= 1
           /\ res'.requests <= 1
           /\ res'.requests = 1 =>
                 /\ res'.waits = 1
                 /\ res'.exc # "IndexError"
                 /\ rate_limiter' =
                        RateLimiter_wait(rate_limiter, now, 0).self
                 /\ now' >= RateLimiter_wait(rate_limiter, now, 0).now
           /\ res'.requests = 0 /\ res'.waits = 1 => res'.exc = "IndexError"
           /\ WroteEntry(k) =>
                 /\ res'.requests = 1
                 /\ res'.upstream = "ok"
                 /\ res'.exc = None
                 /\ last'.ret = ValueOf(ttlcache'.cache, k)
                 /\ ttlcache'.expirations[k] = now' + facade.ttl]_vars

\* a call that slept in wait(), then requested, stored the answer and returned it
C24_Witness ==
    /\ last.op = "call"
    /\ res.waits = 1
    /\ res.requests = 1
    /\ res.upstream = "ok"
    /\ Len(rate_limiter.events) >= 2
    /\ rate_limiter.events[Len(rate_limiter.events)] > rate_limiter.events[1]
    /\ last.key \in KeysOf(ttlcache.cache)
    /\ ValueOf(ttlcache.cache, last.key) = last.ret
    /\ ttlcache.expirations[last.key] = now + facade.ttl

\* ================================================== TTL and recency
\* C25: a get that returns the value of k changes nothing but k's recency position
\* (no expiration, value or other key's relative order changes), and however often k
\* was read, a get of k once the TTL given at its set has elapsed finds it absent.
C25_TtlOrthogonalToLru ==
    [][\A k \in Keys :
        (last'.op = "get" /\ last'.key = k /\ k \in DOMAIN written)
        => IF now >= written[k].deadline
           THEN /\ last'.ret = None
                /\ k \notin KeysOf(ttlcache'.cache)
           ELSE /\ last'.ret = written[k].value
                /\ ttlcache'.expirations = ttlcache.expirations
                /\ ttlcache'.expirations[k] = written[k].deadline
                /\ KeysOf(ttlcache'.cache) = KeysOf(ttlcache.cache)
                /\ \A j \in KeysOf(ttlcache.cache) :
                      ValueOf(ttlcache'.cache, j) = ValueOf(ttlcache.cache, j)
                /\ Without(KeyOrder(ttlcache'.cache), k)
                      = Without(KeyOrder(ttlcache.cache), k)]_vars

\* ================================================ structure and frame
\* C27: with a single caller, after every get, set, clear or _remove_key the keys of
\* the value map `cache` are exactly the keys of `expirations`.
C27_SameKeys == KeysOf(ttlcache.cache) = DOMAIN ttlcache.expirations

\* a get has just purged the expired entry of its key while another entry stays
C27_Witness ==
    /\ last.op = "get"
    /\ last.pos >= 1
    /\ last.key \notin KeysOf(ttlcache.cache)
    /\ ttlcache.cache # <<>>

\* C28: get(k) adds no entry and leaves the presence, value, expiration and relative
\* recency order of every key other than k as they were; on a key that is not tracked
\* it leaves the whole cache unchanged; on a key whose expiration time has passed it
\* removes k and nothing else.
C28_GetFrame ==
    [][\A k \in Keys :
        (last'.op = "get" /\ last'.key = k)
        => /\ KeysOf(ttlcache'.cache) \subseteq KeysOf(ttlcache.cache)
           /\ DOMAIN ttlcache'.expirations \subseteq DOMAIN ttlcache.expirations
           /\ \A j \in Keys \ {k} :
                 /\ j \in KeysOf(ttlcache'.cache) <=> j \in KeysOf(ttlcache.cache)
                 /\ j \in DOMAIN ttlcache'.expirations
                        <=> j \in DOMAIN ttlcache.expirations
                 /\ j \in KeysOf(ttlcache.cache) =>
                       /\ ValueOf(ttlcache'.cache, j) = ValueOf(ttlcache.cache, j)
                       /\ ttlcache'.expirations[j] = ttlcache.expirations[j]
           /\ Without(KeyOrder(ttlcache'.cache), k) = Without(KeyOrder(ttlcache.cache), k)
           /\ ttlcache'.max_items = ttlcache.max_items
           /\ k \notin KeysOf(ttlcache.cache) => ttlcache' = ttlcache
           /\ (k \in KeysOf(ttlcache.cache) /\ now > ttlcache.expirations[k])
                 => /\ last'.ret = None
                    /\ ttlcache' = [ttlcache EXCEPT
                           !.cache = dict_del(@, k),
                           !.expirations = Restrict(@, DOMAIN @ \ {k})]]_vars

\* a get has just removed its expired key, the more recent of two entries, and left
\* the other one, expired as well, in place
C28_Witness ==
    /\ last.op = "get"
    /\ last.pos = 2
    /\ last.ret = None
    /\ last.key \notin KeysOf(ttlcache.cache)
    /\ Len(ttlcache.cache) = 1
    /\ \E j \in KeysOf(ttlcache.cache) : now > ttlcache.expirations[j]

\* ============================================================ CacheManager
\* The CacheManager of app.py (`cache_manager = CacheManager()`), used by a single
\* caller. memory_cache is a dict in insertion order of [key, value, timestamp]
\* entries. The clock is in seconds and moves between the instants below.
AppInstants == {0, 300, 3601}

AppKeys == {"k1", "k2", "k3", "k4"}

\* cache keys f"attractions:{city}:{limit}" of the requests examined
AttractionKeys == {"k1", "k2"}

\* what get_attractions returns: a non-empty dict
Attractions == {"v1", "v2"}

\* the default of the ttl parameter of CacheManager.get and CacheManager.set
DEFAULT_TTL == 300

\* api_attractions: cache_manager.set(cache_key, attractions, ttl=600)
ATTRACTIONS_TTL == 600

\* _cleanup_memory_cache: entries older than this many seconds are dropped
CLEANUP_AGE == 3600

\* _cleanup_memory_cache runs when the dict holds more than this many entries
\* (1000 in the code) and then drops this many of the first-inserted keys (100 in
\* the code); the comparisons are the code's
CleanupLimit == 3

CleanupBatch == 2

Entry(key, value, timestamp) == [key |-> key, value |-> value, timestamp |-> timestamp]

\* self.memory_cache[key] = (value, timestamp): an existing key keeps its position
memory_cache_setitem(c, key, value, timestamp) ==
    IF key \in KeysOf(c)
    THEN [i \in 1..Len(c) |-> IF c[i].key = key THEN Entry(key, value, timestamp) ELSE c[i]]
    ELSE Append(c, Entry(key, value, timestamp))

\* get(key, ttl) at clock t: the manager afterwards and the returned value
CacheManager_get(self, key, ttl, t) ==
    IF key \in KeysOf(self.memory_cache)
    THEN IF t - self.memory_cache[IndexOf(self.memory_cache, key)].timestamp < ttl
         THEN [self |-> self, ret |-> ValueOf(self.memory_cache, key)]
         ELSE [self |-> [self EXCEPT !.memory_cache = dict_del(@, key)], ret |-> None]
    ELSE [self |-> self, ret |-> None]

cleanup_memory_cache_newest(self, t) ==
    IF Len(self.memory_cache) > CleanupLimit
    THEN LET kept == SelectSeq(self.memory_cache,
                               LAMBDA e : ~(t - e.timestamp > CLEANUP_AGE))
         IN  IF Len(kept) > CleanupLimit
             THEN [self EXCEPT !.memory_cache =
                      SubSeq(kept, 1, Len(kept) - CleanupBatch)]
             ELSE [self EXCEPT !.memory_cache = kept]
    ELSE self

\* _cleanup_memory_cache() at clock t
cleanup_memory_cache(self, t) ==
    IF Len(self.memory_cache) > CleanupLimit
    THEN LET kept == SelectSeq(self.memory_cache,
                               LAMBDA e : ~(t - e.timestamp > CLEANUP_AGE))
             keys == KeyOrder(kept)
             deleted == {keys[i + 1] : i \in {j \in 0..(CleanupBatch - 1) : j < Len(keys)}}
         IN  IF Len(kept) > CleanupLimit
             THEN [self EXCEPT !.memory_cache =
                      SelectSeq(kept, LAMBDA e : e.key \notin deleted)]
             ELSE [self EXCEPT !.memory_cache = kept]
    ELSE self

\* set(key, value, ttl) at clock t: the ttl argument is not used
CacheManager_set(self, key, value, ttl, t) ==
    cleanup_memory_cache(
        [self EXCEPT !.memory_cache = memory_cache_setitem(@, key, value, t)], t)

CacheManager_delete(self, key) ==
    [self EXCEPT !.memory_cache = IF key \in KeysOf(@) THEN dict_del(@, key) ELSE @]

CacheManager_clear(self) == [self EXCEPT !.memory_cache = <<>>]

\* api_attractions for the cache key `key` at clock t, get_attractions returning
\* `attractions`: the manager afterwards, the response body, and whether
\* get_attractions was called
api_attractions(self, key, attractions, t) ==
    LET cached_result == CacheManager_get(self, key, DEFAULT_TTL, t)
    IN  IF Truthy(cached_result.ret)
        THEN [self |-> cached_result.self, ret |-> cached_result.ret, called |-> 0]
        ELSE [self |-> CacheManager_set(cached_result.self, key, attractions,
                                        ATTRACTIONS_TTL, t),
              ret |-> attractions, called |-> 1]

\* `written` follows the entries api_attractions stored: key -> [deadline, value],
\* deadline the clock at the store plus the ttl given to set, for as long as the
\* entry has not been deleted, cleared, cleaned up or rewritten by another set.
StoredAttractions(w, c) == Restrict(w, DOMAIN w \cap KeysOf(c))

outside == <<ttlcache, used, rate_limiter, facade, waited, threads, http,
             HTTPSessionManager, retrying>>

ManagerGet(key, ttl) ==
    \E r \in {CacheManager_get(cache_manager, key, ttl, now)} :
        /\ cache_manager' = r.self
        /\ last' = Obs("get", key, r.ret, IndexOf(cache_manager.memory_cache, key),
                       None, FALSE)
        /\ res' = NoRes
        /\ written' = StoredAttractions(written, r.self.memory_cache)
        /\ UNCHANGED <<now, outside>>

ManagerSet(key, value, ttl) ==
    \E s \in {CacheManager_set(cache_manager, key, value, ttl, now)} :
        /\ cache_manager' = s
        /\ last' = Obs("set", key, None, IndexOf(cache_manager.memory_cache, key),
                       None, FALSE)
        /\ res' = NoRes
        /\ written' = StoredAttractions(Restrict(written, DOMAIN written \ {key}),
                                        s.memory_cache)
        /\ UNCHANGED <<now, outside>>

ManagerDelete(key) ==
    /\ cache_manager' = CacheManager_delete(cache_manager, key)
    /\ last' = Obs("delete", key, None, IndexOf(cache_manager.memory_cache, key),
                   None, FALSE)
    /\ res' = NoRes
    /\ written' = Restrict(written, DOMAIN written \ {key})
    /\ UNCHANGED <<now, outside>>

ManagerClear ==
    /\ cache_manager' = CacheManager_clear(cache_manager)
    /\ last' = Idle("clear")
    /\ res' = NoRes
    /\ written' = Restrict(written, {})
    /\ UNCHANGED <<now, outside>>

\* GET /api/attractions with a city and limit that give the cache key `key`;
\* res.requests counts the calls of get_attractions
ApiAttractions(key, attractions) ==
    \E r \in {api_attractions(cache_manager, key, attractions, now)} :
        /\ cache_manager' = r.self
        /\ last' = Obs("api_attractions", key, r.ret,
                       IndexOf(cache_manager.memory_cache, key), None, FALSE)
        /\ res' = [NoRes EXCEPT !.requests = r.called]
        /\ written' =
               IF r.called = 1
               THEN [k \in (DOMAIN written \cap KeysOf(r.self.memory_cache)) \cup {key} |->
                        IF k = key
                        THEN [deadline |-> now + ATTRACTIONS_TTL, value |-> attractions]
                        ELSE written[k]]
               ELSE StoredAttractions(written, r.self.memory_cache)
        /\ UNCHANGED <<now, outside>>

\* time passes
Advance(t) ==
    /\ t > now
    /\ now' = t
    /\ last' = Idle("tick")
    /\ res' = NoRes
    /\ UNCHANGED <<cache_manager, written, outside>>

InitManager ==
    /\ now = 0
    /\ ttlcache = TTLCache_init(1)
    /\ last = Idle("init")
    /\ written = Restrict(<<>>, {})
    /\ used = <<>>
    /\ rate_limiter = RateLimiter_init(0)
    /\ facade = [name |-> None, ttl |-> 0]
    /\ res = NoRes
    /\ waited = NoWait
    /\ threads = NoThreads
    /\ http = NoHttp
    /\ HTTPSessionManager = NoSession
    /\ cache_manager = NoCacheManager
    /\ retrying = NoRetrying

NextManager ==
    \/ \E key \in AppKeys, ttl \in {DEFAULT_TTL, ATTRACTIONS_TTL} : ManagerGet(key, ttl)
    \/ \E key \in AppKeys, ttl \in {DEFAULT_TTL, ATTRACTIONS_TTL} :
          ManagerSet(key, "v1", ttl)
    \/ \E key \in AppKeys : ManagerDelete(key)
    \/ ManagerClear
    \/ \E key \in AttractionKeys, attractions \in Attractions :
          ApiAttractions(key, attractions)
    \/ \E t \in AppInstants : Advance(t)

SpecManager == InitManager /\ [][NextManager]_vars

\* C26: a request to api_attractions for a city and limit whose result an earlier
\* request stored (set with ttl=600) less than 600 seconds ago is answered with the
\* stored result, without get_attractions being called again.
C26_AttractionsCachedTenMinutes ==
    [][\A k \in AttractionKeys :
        (/\ last'.op = "api_attractions"
         /\ last'.key = k
         /\ k \in DOMAIN written
         /\ now < written[k].deadline)
        => /\ res'.requests = 0
           /\ last'.ret = written[k].value]_vars

MaxAttempts == 3

\* values of max_attempts and delay examined
AttemptCounts == 0..MaxAttempts

Delays == {0, 1, 2}

\* what one invocation of the wrapped function does: it returns a value, raises an
\* Exception, or raises a BaseException that is no Exception (KeyboardInterrupt)
Invocations ==
    {[raised |-> None, value |-> v] : v \in {"v1", None}}
    \cup {[raised |-> k, value |-> None] : k \in {"Exception", "BaseException"}}

Finished == {"returned", "raised"}

is_last_attempt_late(attempt, max_attempts) == attempt = max_attempts

\* if attempt == max_attempts - 1
is_last_attempt(attempt, max_attempts) == attempt = max_attempts - 1

around == <<now, ttlcache, last, written, used, rate_limiter, facade, res, waited,
            threads, http, HTTPSessionManager, cache_manager>>

\* wrapper(*args, **kwargs) is called
wrapper_enter(max_attempts, delay) ==
    /\ retrying.pc \in {"idle"} \cup Finished
    /\ retrying' = [pc |-> "L151", max_attempts |-> max_attempts, delay |-> delay,
                    attempt |-> 0, calls |-> <<>>, slept |-> <<>>, ret |-> None,
                    exc |-> None]
    /\ UNCHANGED around

\* for attempt in range(max_attempts): the next attempt, or the loop is over and
\* line 161 returns None
L151_for ==
    /\ retrying.pc = "L151"
    /\ retrying' = IF retrying.attempt < retrying.max_attempts
                   THEN [retrying EXCEPT !.pc = "L153"]
                   ELSE [retrying EXCEPT !.pc = "returned", !.ret = None]
    /\ UNCHANGED around

\* return func(*args, **kwargs)
L153_invoke(outcome) ==
    /\ retrying.pc = "L153"
    /\ retrying' =
          IF outcome.raised = None
          THEN [retrying EXCEPT !.pc = "returned", !.ret = outcome.value,
                                !.calls = Append(@, outcome)]
          ELSE IF outcome.raised = "Exception"
          THEN [retrying EXCEPT !.pc = "L155", !.calls = Append(@, outcome)]
          ELSE [retrying EXCEPT !.pc = "raised",
                                !.exc = [kind |-> outcome.raised,
                                         of |-> Len(retrying.calls) + 1],
                                !.calls = Append(@, outcome)]
    /\ UNCHANGED around

\* except Exception as e: if attempt == max_attempts - 1: raise
L155_if_last ==
    /\ retrying.pc = "L155"
    /\ retrying' =
          IF is_last_attempt(retrying.attempt, retrying.max_attempts)
          THEN [retrying EXCEPT !.pc = "raised",
                                !.exc = [kind |-> "Exception", of |-> Len(retrying.calls)]]
          ELSE [retrying EXCEPT !.pc = "L159"]
    /\ UNCHANGED around

\* time.sleep(delay * (2 ** attempt)), then the next round of the loop
L159_sleep ==
    /\ retrying.pc = "L159"
    /\ retrying' = [retrying EXCEPT
                       !.pc = "L151",
                       !.slept = Append(@, retrying.delay * (2 ^ retrying.attempt)),
                       !.attempt = @ + 1]
    /\ UNCHANGED around

InitRetry ==
    /\ now = 0
    /\ ttlcache = TTLCache_init(1)
    /\ last = Idle("init")
    /\ written = Restrict(<<>>, {})
    /\ used = <<>>
    /\ rate_limiter = RateLimiter_init(0)
    /\ facade = [name |-> None, ttl |-> 0]
    /\ res = NoRes
    /\ waited = NoWait
    /\ threads = NoThreads
    /\ http = NoHttp
    /\ HTTPSessionManager = NoSession
    /\ cache_manager = NoCacheManager
    /\ retrying = NoRetrying

NextRetry ==
    \/ \E max_attempts \in AttemptCounts, delay \in Delays :
          wrapper_enter(max_attempts, delay)
    \/ L151_for
    \/ \E outcome \in Invocations : L153_invoke(outcome)
    \/ L155_if_last
    \/ L159_sleep

SpecRetry == InitRetry /\ [][NextRetry]_vars

\* C30: with max_attempts >= 1 the wrapped function is invoked at most max_attempts
\* times, and only after every earlier invocation raised; the wrapper returns what
\* the first invocation that does not raise returned; once max_attempts invocations
\* have raised it re-raises the exception of the last one; it has slept
\* delay * 2^i after failed attempt i and before attempt i + 1, and not after the
\* last attempt.
C30_RetryOnFailure ==
    (retrying.pc # "idle" /\ retrying.max_attempts >= 1) =>
        LET n == Len(retrying.calls)
        IN  /\ n <= retrying.max_attempts
            /\ \A i \in 1..(n - 1) : retrying.calls[i].raised = "Exception"
            /\ retrying.slept =
                  [i \in 1..Len(retrying.slept) |-> retrying.delay * (2 ^ (i - 1))]
            /\ Len(retrying.slept) = IF retrying.pc \in {"L151", "L153"} THEN n
                                     ELSE n - 1
            /\ Len(retrying.slept) <= retrying.max_attempts - 1
            /\ retrying.pc = "returned" =>
                  /\ n >= 1
                  /\ retrying.calls[n].raised = None
                  /\ retrying.ret = retrying.calls[n].value
            /\ retrying.pc = "raised" =>
                  /\ retrying.calls[n].raised # None
                  /\ retrying.exc = [kind |-> retrying.calls[n].raised, of |-> n]
                  /\ retrying.calls[n].raised = "Exception" => n = retrying.max_attempts
            /\ (/\ n = retrying.max_attempts
                /\ retrying.calls[n].raised = "Exception"
                /\ retrying.pc \notin {"L155"})
               => retrying.pc = "raised"

\* three failed attempts with delay 1: slept 1 and 2 seconds, the third exception
\* re-raised
C30_Witness ==
    /\ retrying.pc = "raised"
    /\ retrying.max_attempts = 3
    /\ retrying.slept = <<1, 2>>
    /\ retrying.exc = [kind |-> "Exception", of |-> 3]
====
